---- MODULE Spec2Model ----
(***************************************************************************)
(* The autograd tutorial notebook (src/autogradyt_tutorial.ipynb) as a     *)
(* state machine. The state is the state of the notebook's kernel: the     *)
(* names the code cells bind (torch, a, b, c, d, out, model, loss, x, y,   *)
(* inputs, ...), the tensors and graph nodes those names lead to and the   *)
(* gradients stored on the leaf tensors. One action is one execution of a  *)
(* code cell (or of a snippet the prose shows); a cell holding a loop runs *)
(* one iteration per step. A kernel runs its cells one at a time, in       *)
(* whatever order they are submitted, so the cells may fire in any order   *)
(* and any number of times; a cell that raises leaves the exception's name *)
(* in err and keeps every binding made before the raise.                   *)
(*                                                                         *)
(* Every code cell of the notebook is an action. The cells fall into       *)
(* groups by the names they read and write, and no cell of one group       *)
(* reads or writes a name of another:                                      *)
(*   the kernel cells   %matplotlib inline and the imports                 *)
(*   DoublingCells      x, y, v, exp_adder, inputs, do_some_doubling       *)
(*   GraphCells         a, b, c, d, out                                    *)
(*   TrainCells         some_input, ideal_output, model, optimizer,        *)
(*                      prediction, loss                                   *)
(* A specification runs the kernel cells with the cells of one group       *)
(* (SpecDoubling, SpecGraph, SpecTrain) or of two (SpecAutograd).          *)
(*                                                                         *)
(* Numbers. Tensors are sequences of integers, row-major when they have    *)
(* two dimensions. In the doubling group an element is in units of 1/Unit  *)
(* (a power of two, so the floats modelled and their doublings are exact)  *)
(* and a gradient in units of 1/GradScale. In the other two groups an      *)
(* element is a fixed-point number in units of 1/Scale, and a product is   *)
(* rounded down to that resolution.                                        *)
(***************************************************************************)
EXTENDS Integers, Sequences, FiniteSets, TLC

VARIABLES
    execution_count, \* cells executed so far by the kernel
    err,             \* exception raised by the last cell, "none" if it ran through
    pc,              \* "idle", or the loop the kernel is inside
    last,            \* the cell the kernel executed last, "" before the first
    torch,           \* the import cell has bound torch, plt, ticker and math
    \* ---- doubling group
    x,               \* data of the leaf x, None before a cell bound it
    x_grad,          \* x.grad
    y,               \* data of y
    y_requires_grad, \* y.requires_grad
    y_depth,         \* MulBackward0 nodes between y and x (y = x * 2^y_depth), 0: no grad_fn
    y_freed,         \* y's graph has released its saved tensors
    exp_adder,       \* the name exp_adder is bound
    inputs,          \* a tensor, or a pair of tensors
    fy,              \* the local y of do_some_doubling
    fk,              \* doublings do_some_doubling has made
    vjp_out,         \* value of the vjp cell: <<outputs, vjp>>
    \* ---- graph group
    tensors,         \* every tensor made so far:
                     \*   [data, grad, grad_fn, requires_grad, acc, op, input]
    nodes,           \* every graph node made so far:
                     \*   [name, next_functions, variable, other, freed]
    a, b, c, d, out, \* index in tensors of the tensor the name is bound to, 0: unbound
    printed,         \* what the last graph-walking cell printed
    \* ---- training group
    some_input,      \* BATCH_SIZE x DIM_IN
    ideal_output,    \* BATCH_SIZE x DIM_OUT
    models,          \* every TinyModel made so far: its parameters by name, each [data, grad]
    model,           \* index in models of the one model names, 0: unbound
    initial,         \* initial[k]: models[k] as TinyModel() made it
    version,         \* version[k]: in-place updates the weights of models[k] have had
    optimizer,       \* index in models of the model whose parameters optimizer holds, 0: unbound
    prediction,      \* data of prediction, None before the first forward pass
    loss,            \* the last loss: [data, graph, version, model, input, h, diff]
    for_i,           \* the loop variable i of the accumulation cell
    shown            \* the gradient slices the accumulation cell has printed

kvars == <<execution_count, err, pc, last, torch>>
dvars == <<x, x_grad, y, y_requires_grad, y_depth, y_freed, exp_adder, inputs, fy, fk,
           vjp_out>>
gvars == <<tensors, nodes, a, b, c, d, out, printed>>
tvars == <<some_input, ideal_output, models, model, initial, version, optimizer,
           prediction, loss, for_i, shown>>
vars == <<kvars, dvars, gvars, tvars>>

\* Python's None; no tensor of the notebook is empty.
None == <<>>

\* Cell executions explored per run of the kernel, for the kernel cells and
\* the doubling group.
MaxRuns == 3
\* The same for the graph group.
MaxGraphRuns == 6
\* The same for the training group.
MaxTrainRuns == 7
\* Passes of a while loop explored; a loop that needs more is left running.
MaxDepth == 12

(***************************************************************************)
(* Elementwise helpers                                                     *)
(***************************************************************************)
RECURSIVE SumSeq(_)
SumSeq(s) == IF s = <<>> THEN 0 ELSE Head(s) + SumSeq(Tail(s))

\* t * k for a Python number k
MulScalar(t, k) == [i \in DOMAIN t |-> t[i] * k]

\* s + t, elementwise
AddT(s, t) == [i \in DOMAIN s |-> s[i] + t[i]]

\* What AccumulateGrad does with an incoming gradient: store it when the
\* leaf has no grad yet, add it to the stored one otherwise.
AccumulateReplace(grad, g) == g
AccumulateGrad(grad, g) == IF grad = None THEN g ELSE AddT(grad, g)

RECURSIVE Pow2(_)
Pow2(k) == IF k = 0 THEN 1 ELSE 2 * Pow2(k - 1)

\* the kernel finishes the cell with exception e ("none": it ran through)
Ran(cell, e) ==
    /\ execution_count' = execution_count + 1
    /\ last' = cell
    /\ err' = e

(***************************************************************************)
(* The kernel cells                                                        *)
(***************************************************************************)
\* %matplotlib inline
Cell11 ==
    /\ pc = "idle" /\ execution_count < MaxRuns
    /\ Ran("Cell11", "none")
    /\ UNCHANGED <<pc, torch, dvars, gvars, tvars>>

\* import torch; import matplotlib.pyplot as plt; import matplotlib.ticker
\* as ticker; import math
Cell36 ==
    /\ pc = "idle" /\ execution_count < MaxRuns
    /\ torch' = TRUE
    /\ Ran("Cell36", "none")
    /\ UNCHANGED <<pc, dvars, gvars, tvars>>

(***************************************************************************)
(* The doubling group: detach, the profiler cell, the doubling loop, the   *)
(* backward calls on y and the high-level API                              *)
(***************************************************************************)
\* the bound of the while loops
NormBound == 1000
\* one unit of an element is 1/Unit: 1.0 is 128, 0.0078125 is 1
Unit == 128
\* v = [0.1, 1.0, 0.0001] is <<1000, 10000, 1>> in units of 1/GradScale
GradScale == 10000
v == <<1000, 10000, 1>>
my_gradients == <<1000, 10000, 1>>

\* Values torch.randn(3) is taken to return, a few units around 0:
\* [0.46875, 0.625, 0.5859375], [1., 0., 0.], [0., 0., 0.],
\* [2.5, -1.5, 0.25], [-0.75, 1., 0.]
Inputs ==
    { <<60, 80, 75>>, <<128, 0, 0>>, <<0, 0, 0>>, <<320, -192, 32>>, <<-96, 128, 0>> }

\* draws of torch.rand explored
Draws == 1
\* Values torch.rand(n) is taken to return: multiples of 0.25 in [0, 1)
Rand(n) == { [i \in 1..n |-> ((i * k) % 4) * (Unit \div 4)] : k \in 1..Draws }

Abs(n) == IF n < 0 THEN 0 - n ELSE n

\* The sum of the squares of the elements of t, as a whole number SqWhole
\* and a rest SqRest in units of 1/Unit^2: each element is split into its
\* whole part q and its part r below 1, and q^2 + (2qr + r^2) summed.
SqParts(t) ==
    LET q(i) == Abs(t[i]) \div Unit
        r(i) == Abs(t[i]) % Unit
    IN  [whole |-> SumSeq([i \in DOMAIN t |-> q(i) * q(i)]),
         rest |-> SumSeq([i \in DOMAIN t |-> 2 * q(i) * r(i) * Unit + r(i) * r(i)])]
SqWhole(t) == SqParts(t).whole + SqParts(t).rest \div (Unit * Unit)
SqRest(t) == SqParts(t).rest % (Unit * Unit)

\* y.data.norm() < bound. The norm is the square root of the sum of the
\* squares, so it is below bound exactly when that sum is below bound^2.
NormGE(t, bound) == SqWhole(t) >= bound * bound
NormLTUnsquared(t, bound) == SqWhole(t) < bound
NormLT(t, bound) == SqWhole(t) < bound * bound

\* y * 2
Double(t) == MulScalar(t, 2)

\* backward() with no gradient argument makes the gradient itself, which
\* it can do only for a tensor of one element.
ImplicitGradAlways(t) == TRUE
ImplicitGradOK(t) == Len(t) = 1

\* a gradient handed to backward() has to have the size of the tensor; the
\* tensors of one dimension in this group are those of three elements
SameSize(t, g) == Len(t) = Len(g)

\* x = torch.rand(5, requires_grad=True); y = x.detach(); print(x); print(y)
Cell342 ==
    /\ pc = "idle" /\ execution_count < MaxRuns
    /\ IF ~torch THEN
            /\ Ran("Cell342", "NameError")
            /\ UNCHANGED <<x, x_grad, y, y_requires_grad, y_depth, y_freed>>
       ELSE
            /\ \E r \in Rand(5) :
                /\ x' = r
                /\ y' = r
            /\ x_grad' = None
            /\ y_requires_grad' = FALSE
            /\ y_depth' = 0
            /\ y_freed' = FALSE
            /\ Ran("Cell342", "none")
    /\ UNCHANGED <<pc, torch, exp_adder, inputs, fy, fk, vjp_out, gvars, tvars>>

\* device = ...; x = torch.randn(2, 3, requires_grad=True);
\* y = torch.rand(2, 3, requires_grad=True); z = torch.ones(2, 3, ...);
\* the profiled loop z = (z / x) * y; print of the profile. No other cell
\* reads device, run_on_gpu, z or prf.
Cell367 ==
    /\ pc = "idle" /\ execution_count < MaxRuns
    /\ IF ~torch THEN
            /\ Ran("Cell367", "NameError")
            /\ UNCHANGED <<x, x_grad, y, y_requires_grad, y_depth, y_freed>>
       ELSE
            /\ \E r \in Inputs : x' = r \o r
            /\ \E s \in Rand(2 * 3) : y' = s
            /\ x_grad' = None
            /\ y_requires_grad' = TRUE
            /\ y_depth' = 0
            /\ y_freed' = FALSE
            /\ Ran("Cell367", "none")
    /\ UNCHANGED <<pc, torch, exp_adder, inputs, fy, fk, vjp_out, gvars, tvars>>

\* x = torch.randn(3, requires_grad=True); y = x * 2, up to the while
Cell385Start ==
    /\ pc = "idle" /\ execution_count < MaxRuns
    /\ IF ~torch THEN
            /\ Ran("Cell385", "NameError")
            /\ UNCHANGED <<pc, x, x_grad, y, y_requires_grad, y_depth, y_freed>>
       ELSE
            /\ \E r \in Inputs :
                /\ x' = r
                /\ y' = Double(r)
            /\ x_grad' = None
            /\ y_requires_grad' = TRUE
            /\ y_depth' = 1
            /\ y_freed' = FALSE
            /\ pc' = "while385"
            /\ UNCHANGED <<execution_count, err, last>>
    /\ UNCHANGED <<torch, exp_adder, inputs, fy, fk, vjp_out, gvars, tvars>>

\* one pass of the while body: y = y * 2
Cell385Loop ==
    /\ pc = "while385"
    /\ NormLT(y, NormBound)
    /\ y_depth < MaxDepth
    /\ y' = Double(y)
    /\ y_depth' = y_depth + 1
    /\ UNCHANGED <<kvars, x, x_grad, y_requires_grad, y_freed, exp_adder, inputs, fy, fk,
                   vjp_out, gvars, tvars>>

\* the while condition fails; print(y)
Cell385Exit ==
    /\ pc = "while385"
    /\ ~NormLT(y, NormBound)
    /\ pc' = "idle"
    /\ Ran("Cell385", "none")
    /\ UNCHANGED <<torch, dvars, gvars, tvars>>

\* y.backward(), the call the prose warns about. A tensor that requires
\* grad and has several elements is refused; so is one that does not
\* require grad, and a graph whose saved tensors are gone. A leaf takes
\* the gradient into its own grad, which no cell reads.
YBackwardNoArg ==
    /\ pc = "idle" /\ execution_count < MaxRuns
    /\ IF y = None THEN
            /\ Ran("YBackwardNoArg", "NameError")
            /\ UNCHANGED <<x_grad, y_freed>>
       ELSE IF y_requires_grad /\ ~ImplicitGradOK(y) THEN
            /\ Ran("YBackwardNoArg", "RuntimeError")
            /\ UNCHANGED <<x_grad, y_freed>>
       ELSE IF ~y_requires_grad \/ y_freed THEN
            /\ Ran("YBackwardNoArg", "RuntimeError")
            /\ UNCHANGED <<x_grad, y_freed>>
       ELSE IF y_depth = 0 THEN
            /\ Ran("YBackwardNoArg", "none")
            /\ UNCHANGED <<x_grad, y_freed>>
       ELSE
            /\ x_grad' = AccumulateGrad(x_grad,
                            MulScalar([k \in DOMAIN y |-> GradScale], Pow2(y_depth)))
            /\ y_freed' = TRUE
            /\ Ran("YBackwardNoArg", "none")
    /\ UNCHANGED <<pc, torch, x, y, y_requires_grad, y_depth, exp_adder, inputs, fy, fk,
                   vjp_out, gvars, tvars>>

\* v = torch.tensor([0.1, 1.0, 0.0001]); y.backward(v); print(x.grad)
Cell403 ==
    /\ pc = "idle" /\ execution_count < MaxRuns
    /\ IF ~torch \/ y = None THEN
            /\ Ran("Cell403", "NameError")
            /\ UNCHANGED <<x_grad, y_freed>>
       ELSE IF ~SameSize(y, v) \/ ~y_requires_grad \/ y_freed THEN
            /\ Ran("Cell403", "RuntimeError")
            /\ UNCHANGED <<x_grad, y_freed>>
       ELSE IF y_depth = 0 THEN
            /\ Ran("Cell403", "none")
            /\ UNCHANGED <<x_grad, y_freed>>
       ELSE
            /\ x_grad' = AccumulateGrad(x_grad, MulScalar(v, Pow2(y_depth)))
            /\ y_freed' = TRUE
            /\ Ran("Cell403", "none")
    /\ UNCHANGED <<pc, torch, x, y, y_requires_grad, y_depth, exp_adder, inputs, fy, fk,
                   vjp_out, gvars, tvars>>

\* def exp_adder(x, y); inputs = (torch.rand(1), torch.rand(1));
\* print(inputs); torch.autograd.functional.jacobian(exp_adder, inputs).
\* The def comes first and binds exp_adder even when torch is not bound.
Cell421 ==
    /\ pc = "idle" /\ execution_count < MaxRuns
    /\ exp_adder' = TRUE
    /\ IF ~torch THEN
            /\ Ran("Cell421", "NameError")
            /\ UNCHANGED inputs
       ELSE
            /\ \E r \in Rand(1), s \in Rand(1) : inputs' = <<r, s>>
            /\ Ran("Cell421", "none")
    /\ UNCHANGED <<pc, torch, x, x_grad, y, y_requires_grad, y_depth, y_freed, fy, fk,
                   vjp_out, gvars, tvars>>

\* inputs = (torch.rand(3), torch.rand(3)); print(inputs);
\* torch.autograd.functional.jacobian(exp_adder, inputs)
Cell439 ==
    /\ pc = "idle" /\ execution_count < MaxRuns
    /\ IF ~torch THEN
            /\ Ran("Cell439", "NameError")
            /\ UNCHANGED inputs
       ELSE
            /\ \E r \in Rand(3), s \in Rand(3) : inputs' = <<r, s>>
            /\ Ran("Cell439", IF exp_adder THEN "none" ELSE "NameError")
    /\ UNCHANGED <<pc, torch, x, x_grad, y, y_requires_grad, y_depth, y_freed, exp_adder,
                   fy, fk, vjp_out, gvars, tvars>>

\* def do_some_doubling(x); inputs = torch.randn(3); my_gradients = ...;
\* vjp(do_some_doubling, inputs, v=my_gradients), up to the while of
\* do_some_doubling
Cell457Start ==
    /\ pc = "idle" /\ execution_count < MaxRuns
    /\ IF ~torch THEN
            /\ Ran("Cell457", "NameError")
            /\ UNCHANGED <<pc, inputs, fy, fk>>
       ELSE
            /\ \E r \in Inputs :
                /\ inputs' = r
                /\ fy' = Double(r)
            /\ fk' = 1
            /\ pc' = "while457"
            /\ UNCHANGED <<execution_count, err, last>>
    /\ UNCHANGED <<torch, x, x_grad, y, y_requires_grad, y_depth, y_freed, exp_adder,
                   vjp_out, gvars, tvars>>

Cell457Loop ==
    /\ pc = "while457"
    /\ NormLT(fy, NormBound)
    /\ fk < MaxDepth
    /\ fy' = Double(fy)
    /\ fk' = fk + 1
    /\ UNCHANGED <<kvars, x, x_grad, y, y_requires_grad, y_depth, y_freed, exp_adder,
                   inputs, vjp_out, gvars, tvars>>

\* return y; vjp returns the outputs and my_gradients times the Jacobian
Cell457Exit ==
    /\ pc = "while457"
    /\ ~NormLT(fy, NormBound)
    /\ vjp_out' = <<fy, MulScalar(my_gradients, Pow2(fk))>>
    /\ pc' = "idle"
    /\ Ran("Cell457", "none")
    /\ UNCHANGED <<torch, x, x_grad, y, y_requires_grad, y_depth, y_freed, exp_adder,
                   inputs, fy, fk, gvars, tvars>>

DoublingCells ==
    \/ Cell342
    \/ Cell367
    \/ Cell385Start
    \/ Cell385Loop
    \/ Cell385Exit
    \/ YBackwardNoArg
    \/ Cell403
    \/ Cell421
    \/ Cell439
    \/ Cell457Start
    \/ Cell457Loop
    \/ Cell457Exit

(***************************************************************************)
(* The graph group: the sine chain a -> b = sin(a) -> c = 2 * b ->         *)
(* d = c + 1 -> out, the cells that switch autograd off and on, and the    *)
(* in-place snippet                                                        *)
(***************************************************************************)
\* elements of a; the notebook asks for steps=25
Steps == 4
\* one unit of the fixed-point numbers is 1/Scale
Scale == 1000
\* math.pi in units of 1/Scale
Pi == 3142

\* s * t of two fixed-point numbers
FMul(s, t) == (s * t) \div Scale

\* sin over [0, pi] (Bhaskara's rational form), extended by symmetry and period
SinHalf(r) ==
    LET p == FMul(r, Pi - r)
    IN  (16 * p * Scale) \div (5 * FMul(Pi, Pi) - 4 * p)
SinNum(r) ==
    LET m == r % (2 * Pi)
    IN  IF m <= Pi THEN SinHalf(m) ELSE 0 - SinHalf(m - Pi)
CosNum(r) == SinNum(r + Pi \div 2)

\* torch.sin(t).data and the derivative SinBackward0 multiplies by
Sin(t) == [i \in DOMAIN t |-> SinNum(t[i])]
Cos(t) == [i \in DOMAIN t |-> CosNum(t[i])]

\* torch.linspace(0., 2. * math.pi, steps=Steps)
linspace == [i \in 1..Steps |-> (2 * Pi * (i - 1)) \div (Steps - 1)]

\* torch.ones(rows, cols)
ones(rows, cols) == [i \in 1..(rows * cols) |-> Scale]

\* grad_fn nodes that keep tensors for their backward pass
SavesTensors(name) == name \in {"SinBackward0", "MulBackward0"}

\* a node; variable is the leaf of an AccumulateGrad and the input a
\* SinBackward0 or SumBackward0 keeps, other the number a MulBackward0 keeps
Node(name, next, variable, other) ==
    [name |-> name, next_functions |-> next, variable |-> variable, other |-> other,
     freed |-> FALSE]

\* the tensors and nodes of the kernel, as the cells pass them along
Graph == [tensors |-> tensors, nodes |-> nodes]

\* g with a fresh leaf added; a leaf that requires grad has an
\* AccumulateGrad node
NewLeaf(g, data, op, requires_grad) ==
    [tensors |-> Append(g.tensors,
        [data |-> data, grad |-> None, grad_fn |-> 0, requires_grad |-> requires_grad,
         acc |-> IF requires_grad THEN Len(g.nodes) + 1 ELSE 0,
         op |-> op, input |-> 0]),
     nodes |-> IF requires_grad
               THEN Append(g.nodes, Node("AccumulateGrad", <<>>, Len(g.tensors) + 1, 0))
               ELSE g.nodes]

\* the tensor made last in g
Newest(g) == Len(g.tensors)

\* the node a gradient for tensor t is handed to: its grad_fn, or the
\* accumulator of a leaf that requires grad; 0 (None) for any other leaf
InputFn(t) ==
    IF t.grad_fn # 0 THEN t.grad_fn
    ELSE IF t.requires_grad THEN t.acc
    ELSE 0

\* c = 2 * b: the tensor operand is the first input of the node
MulInputsSwapped(fn) == <<0, fn>>
MulInputs(fn) == <<fn, 0>>

\* next_functions of a new node whose tensor input leads to node fn
NextFunctions(name, fn) ==
    CASE name = "MulBackward0" -> MulInputs(fn)
      [] name = "AddBackward0" -> <<fn, 0>>
      [] OTHER -> <<fn>>

\* g with the result of an operation on tensor t added: the result
\* requires grad and has a grad_fn exactly when t requires grad
Op(g, t, name, other, data, op) ==
    LET arg == g.tensors[t]
        keeps == IF name \in {"SinBackward0", "SumBackward0"} THEN t ELSE 0
    IN  [tensors |-> Append(g.tensors,
            [data |-> data, grad |-> None,
             grad_fn |-> IF arg.requires_grad THEN Len(g.nodes) + 1 ELSE 0,
             requires_grad |-> arg.requires_grad, acc |-> 0, op |-> op, input |-> t]),
         nodes |-> IF arg.requires_grad
                   THEN Append(g.nodes, Node(name, NextFunctions(name, InputFn(arg)),
                                             keeps, other))
                   ELSE g.nodes]

\* An in-place operation is refused on a leaf that requires grad.
InPlaceAlways(leaf) == TRUE
InPlaceAllowed(leaf) == ~(leaf.grad_fn = 0 /\ leaf.requires_grad)

\* a = torch.linspace(0., 2. * math.pi, steps=25, requires_grad=True); print(a)
Cell54 ==
    /\ pc = "idle" /\ execution_count < MaxGraphRuns
    /\ IF ~torch THEN
            /\ Ran("Cell54", "NameError")
            /\ UNCHANGED <<tensors, nodes, a>>
       ELSE
            LET g == NewLeaf(Graph, linspace, "linspace", TRUE)
            IN  /\ tensors' = g.tensors
                /\ nodes' = g.nodes
                /\ a' = Newest(g)
                /\ Ran("Cell54", "none")
    /\ UNCHANGED <<pc, torch, b, c, d, out, printed, dvars, tvars>>

\* b = torch.sin(a); plt.plot(a.detach(), b.detach())
Cell72 ==
    /\ pc = "idle" /\ execution_count < MaxGraphRuns
    /\ IF ~torch \/ a = 0 THEN
            /\ Ran("Cell72", "NameError")
            /\ UNCHANGED <<tensors, nodes, b>>
       ELSE
            LET g == Op(Graph, a, "SinBackward0", 0, Sin(tensors[a].data), "sin")
            IN  /\ tensors' = g.tensors
                /\ nodes' = g.nodes
                /\ b' = Newest(g)
                /\ Ran("Cell72", "none")
    /\ UNCHANGED <<pc, torch, a, c, d, out, printed, dvars, tvars>>

\* print(b)
Cell90 ==
    /\ pc = "idle" /\ execution_count < MaxGraphRuns
    /\ Ran("Cell90", IF b = 0 THEN "NameError" ELSE "none")
    /\ UNCHANGED <<pc, torch, dvars, gvars, tvars>>

\* c = 2 * b; print(c); d = c + 1; print(d)
Cell108 ==
    /\ pc = "idle" /\ execution_count < MaxGraphRuns
    /\ IF b = 0 THEN
            /\ Ran("Cell108", "NameError")
            /\ UNCHANGED <<tensors, nodes, c, d>>
       ELSE
            LET cdata == MulScalar(tensors[b].data, 2)
                g1 == Op(Graph, b, "MulBackward0", 2, cdata, "mul")
                g2 == Op(g1, Newest(g1), "AddBackward0", 0,
                         [i \in DOMAIN cdata |-> cdata[i] + Scale], "add")
            IN  /\ tensors' = g2.tensors
                /\ nodes' = g2.nodes
                /\ c' = Newest(g1)
                /\ d' = Newest(g2)
                /\ Ran("Cell108", "none")
    /\ UNCHANGED <<pc, torch, a, b, out, printed, dvars, tvars>>

\* out = d.sum(); print(out)
Cell126 ==
    /\ pc = "idle" /\ execution_count < MaxGraphRuns
    /\ IF d = 0 THEN
            /\ Ran("Cell126", "NameError")
            /\ UNCHANGED <<tensors, nodes, out>>
       ELSE
            LET g == Op(Graph, d, "SumBackward0", 0, <<SumSeq(tensors[d].data)>>, "sum")
            IN  /\ tensors' = g.tensors
                /\ nodes' = g.nodes
                /\ out' = Newest(g)
                /\ Ran("Cell126", "none")
    /\ UNCHANGED <<pc, torch, a, b, c, d, printed, dvars, tvars>>

\* how print shows a next_functions tuple: the name of each entry
NamesOf(next) ==
    [i \in DOMAIN next |-> IF next[i] = 0 THEN "None" ELSE nodes[next[i]].name]

\* n.next_functions, n.next_functions[0][0].next_functions, ...: the k
\* tuples the cell prints from node n on, as far as the walk gets
RECURSIVE WalkPrints(_, _)
WalkPrints(n, k) ==
    IF n = 0 \/ k = 0 THEN <<>>
    ELSE LET next == nodes[n].next_functions
         IN  IF k = 1 \/ next = <<>> THEN <<NamesOf(next)>>
             ELSE <<NamesOf(next)>> \o WalkPrints(next[1], k - 1)

\* the exception that ends the walk early, if any: None has no
\* next_functions, an empty tuple no first entry
RECURSIVE WalkErr(_, _)
WalkErr(n, k) ==
    IF k = 0 THEN "none"
    ELSE IF n = 0 THEN "AttributeError"
    ELSE IF k = 1 THEN "none"
    ELSE IF nodes[n].next_functions = <<>> THEN "IndexError"
    ELSE WalkErr(nodes[n].next_functions[1], k - 1)

\* the cell drills down this many next_functions
WalkDepth == 4

\* print(d.grad_fn); print(d.grad_fn.next_functions); ... ; print(c.grad_fn);
\* print(b.grad_fn); print(a.grad_fn)
Cell144 ==
    /\ pc = "idle" /\ execution_count < MaxGraphRuns
    /\ IF d = 0 THEN
            /\ Ran("Cell144", "NameError")
            /\ printed' = <<>>
       ELSE
            LET fn == tensors[d].grad_fn
                e == WalkErr(fn, WalkDepth)
                walk == <<NamesOf(<<fn>>)>> \o WalkPrints(fn, WalkDepth)
            IN  /\ Ran("Cell144", e)
                /\ printed' =
                     IF e # "none" THEN walk
                     ELSE walk \o <<NamesOf(<<tensors[c].grad_fn>>),
                                    NamesOf(<<tensors[b].grad_fn>>),
                                    NamesOf(<<tensors[a].grad_fn>>)>>
    /\ UNCHANGED <<pc, torch, tensors, nodes, a, b, c, d, out, dvars, tvars>>

\* the node the engine runs after n: the entry of next_functions that is a node
Successor(n) ==
    LET some == SelectSeq(nodes[n].next_functions, LAMBDA e : e # 0)
    IN  IF some = <<>> THEN 0 ELSE some[1]

\* the nodes a backward pass from node n runs, in order
RECURSIVE Path(_)
Path(n) == IF n = 0 THEN <<>> ELSE <<n>> \o Path(Successor(n))

\* the gradient a node hands to its input, given the gradient g of its output
NodeBackward(node, g) ==
    CASE node.name = "SumBackward0" ->
            [i \in DOMAIN tensors[node.variable].data |-> g[1]]
      [] node.name = "AddBackward0" -> g
      [] node.name = "MulBackward0" -> MulScalar(g, node.other)
      [] node.name = "SinBackward0" ->
            [i \in DOMAIN g |-> FMul(g[i], Cos(tensors[node.variable].data)[i])]

\* the gradient that reaches the i-th node of the path; the pass starts
\* from a gradient of 1.0 for the single element of the root
RECURSIVE GradInto(_, _)
GradInto(path, i) ==
    IF i = 1 THEN <<Scale>>
    ELSE NodeBackward(nodes[path[i - 1]], GradInto(path, i - 1))

\* Only a leaf keeps the gradient the pass computes for it.
StoreGradAlways(t, g) == AccumulateGrad(t.grad, g)
StoreGrad(t, g) == IF t.grad_fn = 0 THEN AccumulateGrad(t.grad, g) ELSE t.grad

\* position of the first node of the path whose saved tensors are gone,
\* Len(path) + 1 if the pass gets through
StopAt(path) ==
    LET gone == {i \in 1..Len(path) :
                    SavesTensors(nodes[path[i]].name) /\ nodes[path[i]].freed}
    IN  IF gone = {} THEN Len(path) + 1
        ELSE CHOOSE i \in gone : \A j \in gone : i <= j

\* t after a pass along path that stopped at stop: the gradient reaches t
\* at its grad_fn, or at its accumulator once the whole pass has run
AfterPass(t, path, stop) ==
    LET fn == InputFn(t)
        at == {i \in 1..Len(path) :
                 /\ path[i] = fn
                 /\ i < stop
                 /\ (t.grad_fn = 0 => stop > Len(path))}
    IN  IF at = {} THEN t
        ELSE [t EXCEPT !.grad = StoreGrad(t, GradInto(path, CHOOSE i \in at : TRUE))]

\* out.backward(); print(a.grad); plt.plot(a.detach(), a.grad.detach())
Cell162 ==
    /\ pc = "idle" /\ execution_count < MaxGraphRuns
    /\ IF out = 0 THEN
            /\ Ran("Cell162", "NameError")
            /\ UNCHANGED <<tensors, nodes>>
       ELSE IF ~tensors[out].requires_grad \/ ~ImplicitGradOK(tensors[out].data) THEN
            /\ Ran("Cell162", "RuntimeError")
            /\ UNCHANGED <<tensors, nodes>>
       ELSE
            LET path == Path(tensors[out].grad_fn)
                stop == StopAt(path)
                ran == {path[i] : i \in 1..(stop - 1)}
            IN  /\ nodes' = [n \in DOMAIN nodes |->
                                IF n \in ran /\ SavesTensors(nodes[n].name)
                                THEN [nodes[n] EXCEPT !.freed = TRUE] ELSE nodes[n]]
                /\ tensors' = [k \in DOMAIN tensors |-> AfterPass(tensors[k], path, stop)]
                /\ Ran("Cell162", IF stop <= Len(path) THEN "RuntimeError"
                       ELSE IF tensors'[a].grad = None THEN "AttributeError"
                       ELSE "none")
    /\ UNCHANGED <<pc, torch, a, b, c, d, out, printed, dvars, tvars>>

\* a = torch.ones(2, 3, requires_grad=True); print(a); b1 = 2 * a;
\* print(b1); a.requires_grad = False; b2 = 2 * a; print(b2). No other
\* cell reads b1 or b2.
Cell288 ==
    /\ pc = "idle" /\ execution_count < MaxGraphRuns
    /\ IF ~torch THEN
            /\ Ran("Cell288", "NameError")
            /\ UNCHANGED <<tensors, nodes, a>>
       ELSE
            LET g == NewLeaf(Graph, ones(2, 3), "ones", TRUE)
            IN  /\ tensors' = [g.tensors EXCEPT ![Newest(g)].requires_grad = FALSE]
                /\ nodes' = g.nodes
                /\ a' = Newest(g)
                /\ Ran("Cell288", "none")
    /\ UNCHANGED <<pc, torch, b, c, d, out, printed, dvars, tvars>>

\* a = torch.ones(2, 3, requires_grad=True) * 2;
\* b = torch.ones(2, 3, requires_grad=True) * 3 in g: a first, b last
OnesTimes(g) ==
    LET g1 == NewLeaf(g, ones(2, 3), "ones", TRUE)
        g2 == Op(g1, Newest(g1), "MulBackward0", 2, MulScalar(ones(2, 3), 2), "mul")
        g3 == NewLeaf(g2, ones(2, 3), "ones", TRUE)
    IN  Op(g3, Newest(g3), "MulBackward0", 3, MulScalar(ones(2, 3), 3), "mul")

\* a = ... * 2; b = ... * 3; c1 = a + b; with torch.no_grad(): c2 = a + b;
\* c3 = a * b, with their prints. No other cell reads c1, c2 or c3.
Cell306 ==
    /\ pc = "idle" /\ execution_count < MaxGraphRuns
    /\ IF ~torch THEN
            /\ Ran("Cell306", "NameError")
            /\ UNCHANGED <<tensors, nodes, a, b>>
       ELSE
            LET g == OnesTimes(Graph)
            IN  /\ tensors' = g.tensors
                /\ nodes' = g.nodes
                /\ a' = Newest(g) - 2
                /\ b' = Newest(g)
                /\ Ran("Cell306", "none")
    /\ UNCHANGED <<pc, torch, c, d, out, printed, dvars, tvars>>

\* def add_tensors1; @torch.no_grad() def add_tensors2; a = ... * 2;
\* b = ... * 3; c1 = add_tensors1(a, b); c2 = add_tensors2(a, b)
Cell324 ==
    /\ pc = "idle" /\ execution_count < MaxGraphRuns
    /\ IF ~torch THEN
            /\ Ran("Cell324", "NameError")
            /\ UNCHANGED <<tensors, nodes, a, b>>
       ELSE
            LET g == OnesTimes(Graph)
            IN  /\ tensors' = g.tensors
                /\ nodes' = g.nodes
                /\ a' = Newest(g) - 2
                /\ b' = Newest(g)
                /\ Ran("Cell324", "none")
    /\ UNCHANGED <<pc, torch, c, d, out, printed, dvars, tvars>>

\* a = torch.linspace(0., 2. * math.pi, steps=25, requires_grad=True);
\* torch.sin_(a), the snippet of the in-place section
Snippet349 ==
    /\ pc = "idle" /\ execution_count < MaxGraphRuns
    /\ IF ~torch THEN
            /\ Ran("Snippet349", "NameError")
            /\ UNCHANGED <<tensors, nodes, a>>
       ELSE
            LET g == NewLeaf(Graph, linspace, "linspace", TRUE)
                leaf == g.tensors[Newest(g)]
            IN  /\ tensors' =
                     IF InPlaceAllowed(leaf)
                     THEN [g.tensors EXCEPT ![Newest(g)].data = Sin(leaf.data)]
                     ELSE g.tensors
                /\ nodes' = g.nodes
                /\ a' = Newest(g)
                /\ Ran("Snippet349", IF InPlaceAllowed(leaf) THEN "none" ELSE "RuntimeError")
    /\ UNCHANGED <<pc, torch, b, c, d, out, printed, dvars, tvars>>

GraphCells ==
    \/ Cell54
    \/ Cell72
    \/ Cell90
    \/ Cell108
    \/ Cell126
    \/ Cell144
    \/ Cell162
    \/ Cell288
    \/ Cell306
    \/ Cell324
    \/ Snippet349

(***************************************************************************)
(* The training group: TinyModel, the loss, SGD and the accumulation loop  *)
(***************************************************************************)
\* the notebook's sizes are 16, 1000, 100 and 10
BATCH_SIZE == 2
DIM_IN == 2
HIDDEN_SIZE == 2
DIM_OUT == 1
\* lr=0.001, in units of 1/Scale
lr == 1
\* for i in range(0, 5)
LoopPasses == 5
\* random initialisations explored
Seeds == 2

\* element (r, c) of a row-major tensor with cols columns
At(t, r, col, cols) == t[(r - 1) * cols + col]

\* the pattern the draws of one seed follow: whole numbers in -4..4
Draw(seed, salt, k) ==
    LET z == seed + 2
    IN  ((z * 31 + salt * 17 + k * 7 + z * k * 3) % 9) - 4

\* the values one draw of torch.randn is taken to return: multiples of
\* 0.25 in [-1, 1]
Randn(seed, salt, n) == [k \in 1..n |-> Draw(seed, salt, k) * 250]

\* the largest bnd in lo..hi with bnd^2 * fan_in <= 1, by bisection
RECURSIVE InitSearch(_, _, _)
InitSearch(lo, hi, fan_in) ==
    IF lo = hi THEN lo
    ELSE LET mid == (lo + hi + 1) \div 2
         IN  IF mid * mid * fan_in <= Scale * Scale
             THEN InitSearch(mid, hi, fan_in)
             ELSE InitSearch(lo, mid - 1, fan_in)

\* torch.nn.Linear draws its weight and its bias from the uniform
\* distribution on (-1/sqrt(fan_in), 1/sqrt(fan_in)); InitBound is that
\* bound rounded down
InitBound(fan_in) == InitSearch(0, Scale, fan_in)

\* the values the initialiser of a Linear layer is taken to return:
\* multiples of a fifth of the bound, at most four fifths of it
LinearInit(seed, salt, n, fan_in) ==
    LET fifth == InitBound(fan_in) \div 5
    IN  [k \in 1..n |-> Draw(seed, salt, k) * fifth]

Param(data) == [data |-> data, grad |-> None]

\* TinyModel(): two Linear layers with fresh weights and no gradients
TinyModel(seed) ==
    [layer1_weight |-> Param(LinearInit(seed, 1, HIDDEN_SIZE * DIM_IN, DIM_IN)),
     layer1_bias |-> Param(LinearInit(seed, 2, HIDDEN_SIZE, DIM_IN)),
     layer2_weight |-> Param(LinearInit(seed, 3, DIM_OUT * HIDDEN_SIZE, HIDDEN_SIZE)),
     layer2_bias |-> Param(LinearInit(seed, 4, DIM_OUT, HIDDEN_SIZE))]

\* the weights alone
Weights(m) == [n \in DOMAIN m |-> m[n].data]
\* the stored gradients alone
Grads(m) == [n \in DOMAIN m |-> m[n].grad]

\* torch.nn.Linear: inp (rows x nin) times weight (nout x nin) transposed, plus bias
Linear(inp, rows, nin, nout, weight, bias) ==
    [k \in 1..(rows * nout) |->
        LET r == (k - 1) \div nout + 1
            o == ((k - 1) % nout) + 1
        IN  SumSeq([j \in 1..nin |-> FMul(At(inp, r, j, nin), At(weight, o, j, nin))])
            + bias[o]]

ReLU(t) == [k \in DOMAIN t |-> IF t[k] > 0 THEN t[k] ELSE 0]

\* prediction = model(some_input); loss = (ideal_output - prediction).pow(2).sum()
\* for the model m, with the tensors the graph keeps for the backward pass
Forward(m) ==
    LET h == ReLU(Linear(some_input, BATCH_SIZE, DIM_IN, HIDDEN_SIZE,
                         m.layer1_weight.data, m.layer1_bias.data))
        pred == Linear(h, BATCH_SIZE, HIDDEN_SIZE, DIM_OUT,
                       m.layer2_weight.data, m.layer2_bias.data)
        diff == [k \in DOMAIN pred |-> ideal_output[k] - pred[k]]
    IN  [prediction |-> pred,
         data |-> <<SumSeq([k \in DOMAIN diff |-> FMul(diff[k], diff[k])])>>,
         input |-> some_input, h |-> h, diff |-> diff]

\* grad of a Linear's weight: grad_out (rows x nout) transposed times inp (rows x nin)
WeightGrad(gout, inp, rows, nin, nout) ==
    [k \in 1..(nout * nin) |->
        LET o == (k - 1) \div nin + 1
            j == ((k - 1) % nin) + 1
        IN  SumSeq([r \in 1..rows |-> FMul(At(gout, r, o, nout), At(inp, r, j, nin))])]

\* grad of a Linear's bias: grad_out summed over the rows
BiasGrad(gout, rows, nout) ==
    [o \in 1..nout |-> SumSeq([r \in 1..rows |-> At(gout, r, o, nout)])]

\* grad of a Linear's input: grad_out (rows x nout) times weight (nout x nin)
InputGrad(gout, weight, rows, nin, nout) ==
    [k \in 1..(rows * nin) |->
        LET r == (k - 1) \div nin + 1
            j == ((k - 1) % nin) + 1
        IN  SumSeq([o \in 1..nout |-> FMul(At(gout, r, o, nout), At(weight, o, j, nin))])]

\* The gradient one backward pass computes for every parameter, from the
\* tensors f the forward pass kept and the weights of m.
Gradients(f, m) ==
    LET dpred == [k \in DOMAIN f.diff |-> 0 - 2 * f.diff[k]]
        dh == InputGrad(dpred, m.layer2_weight.data, BATCH_SIZE, HIDDEN_SIZE, DIM_OUT)
        dpre == [k \in DOMAIN dh |-> IF f.h[k] > 0 THEN dh[k] ELSE 0]
    IN  [layer1_weight |-> WeightGrad(dpre, f.input, BATCH_SIZE, DIM_IN, HIDDEN_SIZE),
         layer1_bias |-> BiasGrad(dpre, BATCH_SIZE, HIDDEN_SIZE),
         layer2_weight |-> WeightGrad(dpred, f.h, BATCH_SIZE, HIDDEN_SIZE, DIM_OUT),
         layer2_bias |-> BiasGrad(dpred, BATCH_SIZE, DIM_OUT)]

\* loss.backward(): every parameter accumulates its gradient; no weight changes
BackwardUpdating(m, g) ==
    [n \in DOMAIN m |->
        [data |-> [k \in DOMAIN m[n].data |-> m[n].data[k] - FMul(lr, g[n][k])],
         grad |-> AccumulateGrad(m[n].grad, g[n])]]
Backward(m, g) ==
    [n \in DOMAIN m |-> [data |-> m[n].data, grad |-> AccumulateGrad(m[n].grad, g[n])]]

\* optimizer.step() of SGD: weight -= lr * grad, for the parameters that have a grad
Step(m) ==
    [n \in DOMAIN m |->
        IF m[n].grad = None THEN m[n]
        ELSE [data |-> [k \in DOMAIN m[n].data |-> m[n].data[k] - FMul(lr, m[n].grad[k])],
              grad |-> m[n].grad]]

\* optimizer.zero_grad(set_to_none=False): the grads that exist become zeros
ZeroGradToNone(m) == [n \in DOMAIN m |-> [data |-> m[n].data, grad |-> None]]
ZeroGrad(m) ==
    [n \in DOMAIN m |->
        IF m[n].grad = None THEN m[n]
        ELSE [data |-> m[n].data, grad |-> [k \in DOMAIN m[n].grad |-> 0]]]

\* t[0][0:10] of a tensor with HIDDEN_SIZE columns
Slice(t) == SubSeq(t, 1, IF HIDDEN_SIZE < 10 THEN HIDDEN_SIZE ELSE 10)

\* no loss yet
NoLoss ==
    [data |-> None, graph |-> "unbound", version |-> 0, model |-> 0, input |-> None,
     h |-> None, diff |-> None]

\* the loss of a forward pass f over the weights of models[k], its graph live
NewLoss(f, k) ==
    [data |-> f.data, graph |-> "live", version |-> version[k], model |-> k,
     input |-> f.input, h |-> f.h, diff |-> f.diff]

\* the backward pass can run: the graph still holds its tensors, and no
\* weight it kept was updated in place since the forward pass
CanBackward(l) == l.graph = "live" /\ l.version = version[l.model]

\* print(model.layer2.weight.grad[0][0:10]) raises on a grad that is None
GradPrints(m) == IF m.layer2_weight.grad = None THEN "TypeError" ELSE "none"

\* BATCH_SIZE = 16; ...; class TinyModel; some_input = torch.randn(...);
\* ideal_output = torch.randn(...); model = TinyModel()
Cell180 ==
    /\ pc = "idle" /\ execution_count < MaxTrainRuns
    /\ IF ~torch THEN
            /\ Ran("Cell180", "NameError")
            /\ UNCHANGED <<some_input, ideal_output, models, model, initial, version>>
       ELSE
            /\ \E seed \in 1..Seeds :
                /\ some_input' = Randn(seed, 5, BATCH_SIZE * DIM_IN)
                /\ ideal_output' = Randn(seed, 6, BATCH_SIZE * DIM_OUT)
                /\ LET made == TinyModel(seed)
                   IN  /\ models' = Append(models, made)
                       /\ initial' = Append(initial, made)
            /\ model' = Len(models) + 1
            /\ version' = Append(version, 0)
            /\ Ran("Cell180", "none")
    /\ UNCHANGED <<pc, torch, optimizer, prediction, loss, for_i, shown, dvars, gvars>>

\* print(model.layer2.weight[0][0:10]); print(model.layer2.weight.grad)
Cell198 ==
    /\ pc = "idle" /\ execution_count < MaxTrainRuns
    /\ Ran("Cell198", IF model = 0 THEN "NameError" ELSE "none")
    /\ UNCHANGED <<pc, torch, dvars, gvars, tvars>>

\* optimizer = torch.optim.SGD(model.parameters(), lr=0.001);
\* prediction = model(some_input); loss = ...; print(loss)
Cell216 ==
    /\ pc = "idle" /\ execution_count < MaxTrainRuns
    /\ IF ~torch \/ model = 0 THEN
            /\ Ran("Cell216", "NameError")
            /\ UNCHANGED <<optimizer, prediction, loss>>
       ELSE
            /\ optimizer' = model
            /\ LET f == Forward(models[model])
               IN  /\ prediction' = f.prediction
                   /\ loss' = NewLoss(f, model)
            /\ Ran("Cell216", "none")
    /\ UNCHANGED <<pc, torch, some_input, ideal_output, models, model, initial, version,
                   for_i, shown, dvars, gvars>>

\* loss.backward(); print(model.layer2.weight[0][0:10]);
\* print(model.layer2.weight.grad[0][0:10]). The gradients go to the
\* parameters the loss was computed from.
Cell234 ==
    /\ pc = "idle" /\ execution_count < MaxTrainRuns
    /\ IF loss.graph = "unbound" THEN
            /\ Ran("Cell234", "NameError")
            /\ UNCHANGED <<models, loss>>
       ELSE IF ~CanBackward(loss) THEN
            /\ Ran("Cell234", "RuntimeError")
            /\ UNCHANGED <<models, loss>>
       ELSE
            /\ models' = [models EXCEPT ![loss.model] =
                            Backward(@, Gradients(loss, @))]
            /\ loss' = [loss EXCEPT !.graph = "freed"]
            /\ Ran("Cell234", GradPrints(models'[model]))
    /\ UNCHANGED <<pc, torch, some_input, ideal_output, model, initial, version, optimizer,
                   prediction, for_i, shown, dvars, gvars>>

\* optimizer.step(); print(model.layer2.weight[0][0:10]);
\* print(model.layer2.weight.grad[0][0:10]). The step updates the
\* parameters the optimizer was made with.
Cell252 ==
    /\ pc = "idle" /\ execution_count < MaxTrainRuns
    /\ IF optimizer = 0 THEN
            /\ Ran("Cell252", "NameError")
            /\ UNCHANGED <<models, version>>
       ELSE
            /\ models' = [models EXCEPT ![optimizer] = Step(@)]
            /\ version' = [version EXCEPT ![optimizer] =
                            IF models[optimizer].layer2_weight.grad = None THEN @ ELSE @ + 1]
            /\ Ran("Cell252", GradPrints(models'[model]))
    /\ UNCHANGED <<pc, torch, some_input, ideal_output, model, initial, optimizer,
                   prediction, loss, for_i, shown, dvars, gvars>>

\* print(model.layer2.weight.grad[0][0:10]), then into the for loop
Cell270Start ==
    /\ pc = "idle" /\ execution_count < MaxTrainRuns
    /\ IF model = 0 THEN
            /\ Ran("Cell270", "NameError")
            /\ UNCHANGED <<pc, for_i, shown>>
       ELSE IF GradPrints(models[model]) # "none" THEN
            /\ Ran("Cell270", GradPrints(models[model]))
            /\ UNCHANGED <<pc, for_i, shown>>
       ELSE
            /\ shown' = <<Slice(models[model].layer2_weight.grad)>>
            /\ for_i' = 0
            /\ pc' = "for270"
            /\ UNCHANGED <<execution_count, err, last>>
    /\ UNCHANGED <<torch, some_input, ideal_output, models, model, initial, version,
                   optimizer, prediction, loss, dvars, gvars>>

\* one pass of the loop body: prediction = model(some_input); loss = ...;
\* loss.backward()
Cell270Loop ==
    /\ pc = "for270"
    /\ for_i < LoopPasses
    /\ LET f == Forward(models[model])
       IN  /\ prediction' = f.prediction
           /\ models' = [models EXCEPT ![model] =
                            Backward(@, Gradients(NewLoss(f, model), @))]
           /\ loss' = [NewLoss(f, model) EXCEPT !.graph = "freed"]
    /\ for_i' = for_i + 1
    /\ UNCHANGED <<kvars, some_input, ideal_output, model, initial, version, optimizer,
                   shown, dvars, gvars>>

\* the loop is over: print(model.layer2.weight.grad[0][0:10])
Cell270Print ==
    /\ pc = "for270"
    /\ for_i = LoopPasses
    /\ shown' = Append(shown, Slice(models[model].layer2_weight.grad))
    /\ pc' = "zero270"
    /\ UNCHANGED <<execution_count, err, last, torch, some_input, ideal_output, models,
                   model, initial, version, optimizer, prediction, loss, for_i, dvars, gvars>>

\* optimizer.zero_grad(set_to_none=False); print(model.layer2.weight.grad[0][0:10])
Cell270Zero ==
    /\ pc = "zero270"
    /\ IF optimizer = 0 THEN
            /\ Ran("Cell270", "NameError")
            /\ UNCHANGED <<models, shown>>
       ELSE
            /\ models' = [models EXCEPT ![optimizer] = ZeroGrad(@)]
            /\ shown' = IF GradPrints(models'[model]) # "none" THEN shown
                        ELSE Append(shown, Slice(models'[model].layer2_weight.grad))
            /\ Ran("Cell270", GradPrints(models'[model]))
    /\ pc' = "idle"
    /\ UNCHANGED <<torch, some_input, ideal_output, model, initial, version, optimizer,
                   prediction, loss, for_i, dvars, gvars>>

TrainCells ==
    \/ Cell180
    \/ Cell198
    \/ Cell216
    \/ Cell234
    \/ Cell252
    \/ Cell270Start
    \/ Cell270Loop
    \/ Cell270Print
    \/ Cell270Zero

(***************************************************************************)
(* The kernel                                                              *)
(***************************************************************************)
\* a fresh kernel: no cell has run and no name is bound
Init ==
    /\ execution_count = 0 /\ err = "none" /\ pc = "idle" /\ last = ""
    /\ torch = FALSE
    /\ x = None /\ x_grad = None /\ y = None
    /\ y_requires_grad = FALSE /\ y_depth = 0 /\ y_freed = FALSE
    /\ exp_adder = FALSE
    /\ inputs = None /\ fy = None /\ fk = 0 /\ vjp_out = None
    /\ tensors = <<>> /\ nodes = <<>>
    /\ a = 0 /\ b = 0 /\ c = 0 /\ d = 0 /\ out = 0
    /\ printed = <<>>
    /\ some_input = None /\ ideal_output = None
    /\ models = <<>> /\ model = 0 /\ initial = <<>> /\ version = <<>>
    /\ optimizer = 0 /\ prediction = None
    /\ loss = NoLoss /\ for_i = 0 /\ shown = <<>>

NextDoubling ==
    \/ Cell11
    \/ Cell36
    \/ DoublingCells

NextGraph ==
    \/ Cell11
    \/ Cell36
    \/ GraphCells

NextAutograd ==
    \/ Cell11
    \/ Cell36
    \/ DoublingCells
    \/ GraphCells

NextTrain ==
    \/ Cell11
    \/ Cell36
    \/ TrainCells

SpecDoubling == Init /\ [][NextDoubling]_vars
SpecGraph == Init /\ [][NextGraph]_vars
SpecAutograd == Init /\ [][NextAutograd]_vars
SpecTrain == Init /\ [][NextTrain]_vars

(***************************************************************************)
(* Properties                                                              *)
(***************************************************************************)
\* this step is the kernel finishing the cell
Executes(cell) == execution_count' = execution_count + 1 /\ last' = cell

\* this step is cell 234 running the backward pass of loss
BackwardRuns == Executes("Cell234") /\ loss.graph = "live" /\ loss'.graph = "freed"

\* the gradient one more pass over the current weights of model computes
PassGradients == Gradients(Forward(models[model]), models[model])

AllZero(t) == t # None /\ \A k \in DOMAIN t : t[k] = 0

\* every parameter's grad is a tensor of zeros
AllGradsZero(m) == \A n \in DOMAIN m : AllZero(m[n].grad)

\* C1: without a zero_grad in between, a backward pass adds its gradient to
\* the one each parameter already stores: every pass of the five-pass loop
\* leaves every weight as it was and every grad increased by the gradient of
\* that pass, and the slice of layer2.weight.grad printed after the loop is
\* the slice printed before it plus five times the gradient of one pass.
C1_GradientsAccumulate ==
    [][ /\ Cell270Loop =>
            /\ Weights(models'[model]) = Weights(models[model])
            /\ LET pass == PassGradients
               IN  Grads(models'[model]) =
                     [n \in DOMAIN models[model] |->
                        AddT(models[model][n].grad, pass[n])]
        /\ Cell270Print =>
            shown'[2] = AddT(shown'[1],
                             MulScalar(Slice(PassGradients.layer2_weight), LoopPasses))
      ]_vars

\* the loop has run after an optimizer step and has changed the gradient
C1_Witness ==
    /\ pc = "zero270" /\ version[model] > 0
    /\ shown[2] # shown[1]
    /\ for_i = LoopPasses

\* C2: loss.backward() gives every parameter a gradient and changes no
\* weight, and the weights of a model are the initial ones as long as no
\* optimizer step has updated them.
C2_BackwardKeepsWeights ==
    /\ [](\A k \in DOMAIN models : version[k] = 0 => Weights(models[k]) = Weights(initial[k]))
    /\ [][ /\ (Executes("Cell234") \/ Cell270Loop) =>
                \A k \in DOMAIN models : Weights(models'[k]) = Weights(models[k])
           /\ BackwardRuns =>
                \A n \in DOMAIN models'[loss.model] : models'[loss.model][n].grad # None
         ]_vars

\* loss.backward() has just run on the freshly made model
C2_Witness ==
    /\ last = "Cell234" /\ err = "none" /\ version[model] = 0
    /\ loss.model = model
    /\ models[model].layer2_weight.grad # None
    /\ \E k \in DOMAIN models[model].layer2_weight.grad :
          models[model].layer2_weight.grad[k] # 0

\* C3: optimizer.zero_grad(set_to_none=False) leaves every grad a tensor of
\* zeros (not None) and every weight as it was, and a backward pass that
\* starts from zeroed grads stores exactly the gradient of that pass.
C3_ZeroGradResets ==
    [][ /\ Cell270Zero =>
            /\ AllGradsZero(models'[model])
            /\ \A k \in DOMAIN models : Weights(models'[k]) = Weights(models[k])
        /\ (BackwardRuns /\ AllGradsZero(models[loss.model])) =>
            Grads(models'[loss.model]) = Gradients(loss, models[loss.model])
        /\ (Cell270Loop /\ AllGradsZero(models[model])) =>
            Grads(models'[model]) = PassGradients
      ]_vars

\* zero_grad has run on gradients the loop had accumulated and printed
\* zeros, and cell 234 has then run the backward pass of a new loss
C3_Witness ==
    /\ last = "Cell234" /\ err = "none" /\ pc = "idle"
    /\ loss.model = model /\ loss.graph = "freed"
    /\ Len(shown) = 3 /\ AllZero(shown[3])
    /\ \E k \in DOMAIN shown[2] : shown[2][k] # 0
    /\ Grads(models[model]) = Gradients(loss, models[model])
    /\ \E k \in DOMAIN models[model].layer2_weight.grad :
          models[model].layer2_weight.grad[k] # 0

\* out's graph still holds the tensors its backward pass needs
GraphIntact(t) == StopAt(Path(tensors[t].grad_fn)) > Len(Path(tensors[t].grad_fn))

\* C4: y.backward() on the y of the doubling loop, which has three
\* elements, raises a RuntimeError and stores nothing on x; y.backward(v)
\* on that y, its graph not yet run, stores x.grad, a tensor of y's shape
\* (v times the Jacobian when x had none); and a backward() without
\* argument that is accepted ran on a tensor of one element, as
\* out.backward() is when out requires grad and its graph has its tensors.
C4_ImplicitGradScalarOnly ==
    [][ /\ (Executes("YBackwardNoArg") /\ y # None /\ Len(y) > 1) =>
            /\ err' = "RuntimeError"
            /\ x_grad' = x_grad /\ y_freed' = y_freed
        /\ (Executes("Cell403") /\ torch /\ y_depth >= 1 /\ ~y_freed) =>
            /\ err' = "none"
            /\ x_grad' # None /\ Len(x_grad') = Len(y)
            /\ x_grad = None => x_grad' = MulScalar(v, Pow2(y_depth))
        /\ (Executes("Cell162") /\ out # 0) =>
            /\ (tensors[out].requires_grad /\ GraphIntact(out)) => err' # "RuntimeError"
            /\ err' # "RuntimeError" => Len(tensors[out].data) = 1
      ]_vars

\* y.backward() has just been refused on the y of the doubling loop, x
\* still without a gradient
C4_Witness ==
    /\ last = "YBackwardNoArg" /\ err = "RuntimeError"
    /\ y_depth >= 1 /\ Len(y) = 3
    /\ x_grad = None

\* C5: torch.sin_(a) on the leaf a, which requires grad, raises a
\* RuntimeError and a keeps the values linspace gave it.
C5_InPlaceOnLeafRefused ==
    (last = "Snippet349" /\ err # "NameError") =>
        /\ err = "RuntimeError"
        /\ tensors[a].data = linspace

C5_Witness ==
    /\ last = "Snippet349" /\ err # "NameError"
    /\ a # 0 /\ tensors[a].requires_grad /\ tensors[a].grad_fn = 0

\* the norm of t is above bound
NormGT(t, bound) ==
    \/ SqWhole(t) > bound * bound
    \/ SqWhole(t) = bound * bound /\ SqRest(t) > 0

\* C6 as stated: once a doubling loop has exited the norm of y exceeds the
\* bound and y is x times 2^k for some k >= 1.
C6_NormExceedsBound ==
    /\ (pc = "idle" /\ last = "Cell385" /\ err = "none") =>
        /\ NormGT(y, NormBound)
        /\ \E k \in 1..MaxDepth : y = MulScalar(x, Pow2(k))
    /\ (pc = "idle" /\ last = "Cell457" /\ err = "none") =>
        /\ NormGT(vjp_out[1], NormBound)
        /\ \E k \in 1..MaxDepth : vjp_out[1] = MulScalar(inputs, Pow2(k))

\* C6, amended: once a doubling loop has exited the norm of y is not below
\* the bound (it may equal it) and y is x times 2^k for some k >= 1.
C6_NormNotBelowBound ==
    /\ (pc = "idle" /\ last = "Cell385" /\ err = "none") =>
        /\ NormGE(y, NormBound)
        /\ \E k \in 1..MaxDepth : y = MulScalar(x, Pow2(k))
    /\ (pc = "idle" /\ last = "Cell457" /\ err = "none") =>
        /\ NormGE(vjp_out[1], NormBound)
        /\ \E k \in 1..MaxDepth : vjp_out[1] = MulScalar(inputs, Pow2(k))

\* the loop has exited after several doublings with the norm equal to the bound
C6_Witness ==
    /\ pc = "idle" /\ last = "Cell385" /\ err = "none"
    /\ y_depth > 1
    /\ SqWhole(y) = NormBound * NormBound /\ SqRest(y) = 0

\* the names are bound to the chain of the tutorial: a is a leaf linspace
\* made, b = sin(a), c = 2 * b and d = c + 1
Chain ==
    /\ a # 0 /\ b # 0 /\ c # 0 /\ d # 0
    /\ tensors[a].op = "linspace"
    /\ tensors[b].op = "sin" /\ tensors[b].input = a
    /\ tensors[c].op = "mul" /\ tensors[c].input = b
    /\ tensors[d].op = "add" /\ tensors[d].input = c

\* and out = d.sum()
ChainOut == Chain /\ out # 0 /\ tensors[out].op = "sum" /\ tensors[out].input = d

\* C7: only the leaf has its gradient computed: a tensor with a grad_fn (as
\* b, c and d of the chain) never holds a grad, and when out.backward() has
\* run through on the chain a -> b -> c -> d -> out, a.grad is populated.
C7_OnlyLeafHasGrad ==
    /\ \A k \in DOMAIN tensors : tensors[k].grad_fn # 0 => tensors[k].grad = None
    /\ (last = "Cell162" /\ ChainOut /\ err # "RuntimeError") =>
        /\ tensors[a].grad # None
        /\ err = "none"

C7_Witness ==
    /\ last = "Cell162" /\ err = "none" /\ ChainOut
    /\ tensors[a].grad # None
    /\ tensors[b].grad = None /\ tensors[c].grad = None /\ tensors[d].grad = None

\* the nodes met from n on by following the first entry of next_functions,
\* ending with 0 if that entry is None
RECURSIVE FirstWalk(_)
FirstWalk(n) ==
    IF n = 0 THEN <<0>>
    ELSE IF nodes[n].next_functions = <<>> THEN <<n>>
    ELSE <<n>> \o FirstWalk(nodes[n].next_functions[1])

\* C8: on the chain, from d.grad_fn the first entries of next_functions lead
\* through the nodes of d (add), c (multiply) and b (sine) to the
\* accumulator of the leaf a, which has no next_functions; no node is met
\* twice; a.grad_fn is None; and that is what the walking cell prints.
C8_GraphWalksBackToLeaf ==
    /\ Chain =>
        LET walk == FirstWalk(tensors[d].grad_fn)
        IN  /\ NamesOf(walk) =
                 <<"AddBackward0", "MulBackward0", "SinBackward0", "AccumulateGrad">>
            /\ walk[1] = tensors[d].grad_fn /\ walk[2] = tensors[c].grad_fn
            /\ walk[3] = tensors[b].grad_fn /\ walk[4] = tensors[a].acc
            /\ nodes[walk[Len(walk)]].next_functions = <<>>
            /\ \A j, k \in DOMAIN walk : walk[j] = walk[k] => j = k
            /\ tensors[a].grad_fn = 0
    /\ (last = "Cell144" /\ Chain) =>
        /\ err = "none"
        /\ printed = << <<"AddBackward0">>, <<"MulBackward0", "None">>,
                        <<"SinBackward0", "None">>, <<"AccumulateGrad">>, <<>>,
                        <<"MulBackward0">>, <<"SinBackward0">>, <<"None">> >>

C8_Witness == last = "Cell144" /\ err = "none" /\ Chain /\ Len(printed) = 8
====
